---- MODULE Spec2Model ----
(***************************************************************************)
(* A model of slowqueries.py: the line-by-line reassembly of MySQL         *)
(* slow-query-log records (process_input), the dispatch of every           *)
(* (header, event) pair to the heuristics (process_event) and the          *)
(* threshold classification of the heuristics (Heuristic.check).           *)
(*                                                                         *)
(* Text is a sequence of lexical tokens.  A token is a run of characters   *)
(* that every character class and every literal of the program's regular   *)
(* expressions treats alike ("590", "Time:", " ", ";", "\n"), so matching  *)
(* token by token gives the matches the program's regexes give character   *)
(* by character.  Durations are counted in microseconds (the log prints    *)
(* six decimals), so 0.00001 s is 10.                                      *)
(***************************************************************************)
EXTENDS Integers, Sequences, FiniteSets, TLC

VARIABLES
    pc,                 \* "main" | "read" | "done" | "crashed" (an exception
                        \* left main)  and  "heur" | "heur_done"
    argv,               \* the parsed command line: [level, debug]
    notification_level, \* global notification_level
    debug,              \* global debug
    lines,              \* process_input: the working buffer
    current_header,     \* process_input: the active header, or None
    input,              \* the lines sys.stdin.readline() has returned so far
    calls,              \* the calls of process_event made so far
    reported,           \* the calls of rollbar.report_message made so far
    printed,            \* the debug reports printed so far
    notifier,           \* "up": report_message returns; "down": it raises
    hargs,              \* the arguments of a heuristic evaluated on its own
    hres                \* and its results

vars == <<pc, argv, notification_level, debug, lines, current_header, input,
          calls, reported, printed, notifier, hargs, hres>>

None == "None"

(***************************************************************************)
(* Bounds of the model.                                                    *)
(***************************************************************************)
\* the longest input stream read
MaxLines == 6
\* the most lines the working buffer holds while waiting for more input
MaxBuf == 3
\* the longest input stream of header blocks and statements read
MaxBlockLines == 7
\* the most lines the working buffer holds in such a stream
MaxBlockBuf == 4
\* the longest input stream read when the command line is varied
MaxDispatchLines == 4
\* the largest boundary value of a heuristic evaluated on its own
MaxBound == 3
\* the largest numerator of a metric evaluated on its own
MaxMetric == 4

(***************************************************************************)
(* Tokens and character classes.                                           *)
(***************************************************************************)
\* [0-9]{6}
DATE6 == {"121228", "200000"}
\* [0-9]{1,2}:[0-9]{1,2}:[0-9]{1,2}
CLOCK == {"15:24:25"}
\* [0-9]+\.[0-9]+
FLOAT == {"0.000255", "0.000044", "2.500000", "0.005000"}
\* [0-9]+
DIGITS == {"0", "1", "2", "590", "121228", "200000", "1356737065"}
\* the words of the log that are none of the above
WORDS == {"#", "Time:", "User@Host:", "user[db]", "@", "host", "[10.10.10.10]",
          "Query_time:", "Lock_time:", "Rows_sent:", "Rows_examined:",
          "SET", "timestamp=", "use", "mydb", "SELECT", "foo", "FROM", "bar",
          "WHERE", "x", "=", "'a", "b'"}
Tokens == DATE6 \cup CLOCK \cup FLOAT \cup DIGITS \cup WORDS \cup {" ", "\n", ";"}
\* \s
WS == {" ", "\n"}
\* .  (without DOTALL)
DOT == Tokens \ {"\n"}
\* [^;]
NOTSEMI == Tokens \ {";"}

(***************************************************************************)
(* Regular expressions: a sequence of items, matched by backtracking in    *)
(* the priority order of Python's re (greedy repetition first).            *)
(***************************************************************************)
Bol == [op |-> "bol", cls |-> {}, min |-> 0, g |-> ""]
Eol == [op |-> "eol", cls |-> {}, min |-> 0, g |-> ""]
One(cls) == [op |-> "one", cls |-> cls, min |-> 1, g |-> ""]
Lit(tok) == One({tok})
Rep(cls, min) == [op |-> "rep", cls |-> cls, min |-> min, g |-> ""]
Open(g) == [op |-> "open", cls |-> {}, min |-> 0, g |-> g]
Close(g) == [op |-> "close", cls |-> {}, min |-> 0, g |-> g]

NoMatch == [ok |-> FALSE, end |-> 0, caps |-> <<>>]

GroupsOf(re) == {re[i].g : i \in {j \in 1..Len(re) : re[j].op = "open"}}

SetMin(S) == CHOOSE x \in S : \A y \in S : x <= y
SetMax(S) == CHOOSE x \in S : \A y \in S : x >= y

\* the number of consecutive tokens of t from p on that are in cls
RunLen(t, p, cls) ==
    LET others == {q \in p..Len(t) : t[q] \notin cls} IN
    IF others = {} THEN Len(t) + 1 - p ELSE SetMin(others) - p

\* ^ under re.MULTILINE
AtBol(t, p) == p = 1 \/ t[p - 1] = "\n"
\* $ under re.MULTILINE
AtEol(t, p) == p = Len(t) + 1 \/ t[p] = "\n"

\* the first repetition among items k.. of re, or Len(re) + 1
NextRep(re, k) ==
    LET reps == {j \in k..Len(re) : re[j].op = "rep"} IN
    IF reps = {} THEN Len(re) + 1 ELSE SetMin(reps)

\* where item j is matched when items k..j-1, none a repetition, matched from p
PosOf(re, k, j, p) == p + Cardinality({i \in k..(j - 1) : re[i].op = "one"})

\* whether item j, which is no repetition, matches t at position q
ItemOk(it, t, q) ==
    CASE it.op = "bol" -> AtBol(t, q)
      [] it.op = "eol" -> AtEol(t, q)
      [] it.op = "one" -> q <= Len(t) /\ t[q] \in it.cls
      [] OTHER -> TRUE

\* the groups as items k..e-1 leave them: caps maps each group seen so far to
\* the positions <<first, one past the last>> of its text
CapsAfter(re, k, e, p, caps) ==
    LET marks(op, g) == {j \in k..(e - 1) : re[j].op = op /\ re[j].g = g}
        seen == DOMAIN caps \cup {re[j].g : j \in {i \in k..(e - 1) : re[i].op = "open"}}
    IN  [g \in seen |->
           <<IF marks("open", g) # {}
             THEN PosOf(re, k, SetMax(marks("open", g)), p) ELSE caps[g][1],
             IF marks("close", g) # {}
             THEN PosOf(re, k, SetMax(marks("close", g)), p)
             ELSE IF marks("open", g) # {}
                  THEN PosOf(re, k, SetMax(marks("open", g)), p) ELSE caps[g][2]>>]

RECURSIVE MatchFrom(_, _, _, _, _)
\* items k.. of re against t at position p, by backtracking: the items up to
\* the next repetition must match one after the other, and the repetition,
\* which is greedy, takes the longest run after which the rest matches
MatchFrom(re, k, t, p, caps) ==
    LET e == NextRep(re, k) IN
    IF k <= Len(re) /\ re[k].op # "rep" /\ ~ItemOk(re[k], t, p) THEN NoMatch
    ELSE IF \E j \in k..(e - 1) : ~ItemOk(re[j], t, PosOf(re, k, j, p)) THEN NoMatch
    ELSE LET p2 == PosOf(re, k, e, p)
             caps2 == CapsAfter(re, k, e, p, caps)
         IN  IF e > Len(re) THEN [ok |-> TRUE, end |-> p2, caps |-> caps2]
             ELSE LET ns == {n \in re[e].min..RunLen(t, p2, re[e].cls) :
                               MatchFrom(re, e + 1, t, p2 + n, caps2).ok}
                  IN  IF ns = {} THEN NoMatch
                      ELSE MatchFrom(re, e + 1, t, p2 + SetMax(ns), caps2)

\* pattern.match(t, pos): a match starting exactly at p
MatchAt(re, t, p) == MatchFrom(re, 1, t, p, [g \in {} |-> <<0, 0>>])

\* pattern.search: the leftmost match starting at p or later
SearchFrom(re, t, p) ==
    LET starts == {q \in p..(Len(t) + 1) : MatchAt(re, t, q).ok} IN
    IF starts = {} THEN NoMatch
    ELSE MatchAt(re, t, CHOOSE q \in starts : \A q2 \in starts : q <= q2)

\* match.groupdict()
GroupDict(m, t) ==
    [g \in DOMAIN m.caps |-> SubSeq(t, m.caps[g][1], m.caps[g][2] - 1)]

RECURSIVE FindIter(_, _, _)
\* pattern.finditer: the successive non-overlapping matches, as groupdicts
FindIter(re, t, p) ==
    LET r == SearchFrom(re, t, p) IN
    IF ~r.ok THEN <<>>
    ELSE <<GroupDict(r, t)>> \o FindIter(re, t, r.end)

(***************************************************************************)
(* The patterns of the program.                                            *)
(***************************************************************************)
TIME_PATTERN ==
    <<Bol, Lit("#"), Rep(WS, 1), Lit("Time:"), Rep(WS, 1),
      Open("date"), One(DATE6), Close("date"), Rep(WS, 1),
      Open("time"), One(CLOCK), Close("time"), Eol>>

USER_HOST_PATTERN ==
    <<Bol, Lit("#"), Lit(" "), Lit("User@Host:"), Lit(" "),
      Open("user_host"), Rep(DOT, 0), Lit(" "), Lit("@"), Lit(" "), Rep(DOT, 0),
      Close("user_host"), Eol>>

QUERY_STATS_PATTERN ==
    <<Bol, Lit("#"), Lit(" "), Lit("Query_time:"), Lit(" "),
      Open("query_seconds"), One(FLOAT), Close("query_seconds"), Rep(WS, 1),
      Lit("Lock_time:"), Lit(" "),
      Open("lock_time"), One(FLOAT), Close("lock_time"), Rep(WS, 1),
      Lit("Rows_sent:"), Lit(" "),
      Open("rows_sent"), One(DIGITS), Close("rows_sent"), Rep(WS, 1),
      Lit("Rows_examined:"), Lit(" "),
      Open("rows_examined"), One(DIGITS), Close("rows_examined"), Eol>>

\* QUERY_PATTERN with a statement that cannot cross a line break: [^;\n]+
QUERY_PATTERN_OneLine ==
    <<Bol, Rep(WS, 0), Open("query"), Rep(NOTSEMI \ {"\n"}, 1), Lit(";"),
      Close("query"), Eol>>

QUERY_PATTERN ==
    <<Bol, Rep(WS, 0), Open("query"), Rep(NOTSEMI, 1), Lit(";"), Close("query"), Eol>>

IGNORE_PATTERNS ==
    << <<Bol, Rep(WS, 0), Lit("use"), Lit(" "), Rep(DOT, 0), Lit(";"), Eol>>,
       <<Bol, Rep(WS, 0), Lit("SET"), Lit(" "), Lit("timestamp="), One(DIGITS),
         Lit(";"), Eol>> >>

HEADER_REGEX ==
    TIME_PATTERN \o <<Lit("\n")>> \o USER_HOST_PATTERN \o <<Lit("\n")>>
        \o QUERY_STATS_PATTERN

QUERY_REGEX == QUERY_PATTERN

\* IGNORE_REGEX.match(q): the alternation of the patterns, tried at the start of q
IGNORE_REGEX_match(q) ==
    \E i \in 1..Len(IGNORE_PATTERNS) : MatchAt(IGNORE_PATTERNS[i], q, 1).ok

(***************************************************************************)
(* The input lines of the model.  Every line ends with its line break, as  *)
(* readline() returns it.                                                  *)
(***************************************************************************)
LineTime == <<"#", " ", "Time:", " ", "121228", " ", "15:24:25", "\n">>
LineUser ==
    <<"#", " ", "User@Host:", " ", "user[db]", " ", "@", " ", "host", " ",
      "[10.10.10.10]", "\n">>
\* the statistics line of the example in the source
LineStats1 ==
    <<"#", " ", "Query_time:", " ", "0.000255", " ", " ", "Lock_time:", " ",
      "0.000044", " ", "Rows_sent:", " ", "590", " ", " ", "Rows_examined:", " ",
      "590", "\n">>
\* a slow query that returns no row
LineStats2 ==
    <<"#", " ", "Query_time:", " ", "2.500000", " ", "Lock_time:", " ",
      "0.005000", " ", "Rows_sent:", " ", "0", " ", "Rows_examined:", " ",
      "200000", "\n">>
LineSelect == <<"SELECT", " ", "foo", " ", "FROM", " ", "bar", "\n">>
LineWhere == <<"WHERE", " ", "x", " ", "=", " ", "2", ";", "\n">>
LineUse == <<"use", " ", "mydb", ";", "\n">>
LineSetTs == <<"SET", " ", "timestamp=", "1356737065", ";", "\n">>
\* one statement whose string literal holds a semicolon: SELECT 'a;b';
LineQuoted == <<"SELECT", " ", "'a", ";", "b'", ";", "\n">>
\* two statements on one line: SELECT 1; SELECT 2;
LineTwo == <<"SELECT", " ", "1", ";", " ", "SELECT", " ", "2", ";", "\n">>

StatsLines == {LineStats1, LineStats2}
Lines ==
    {LineTime, LineUser, LineSelect, LineWhere, LineUse, LineSetTs, LineQuoted}
        \cup StatsLines

(***************************************************************************)
(* Numbers.  A metric is the fraction num/den; den = 0 stands for the      *)
(* ZeroDivisionError a division by zero raises.                            *)
(***************************************************************************)
Metric(n, d) == [num |-> n, den |-> d]
IsFault(v) == v.den = 0
\* v >= n and v < n, for a metric v and a boundary n
Ge(v, n) == v.num >= n * v.den
Lt(v, n) == v.num < n * v.den

\* int(s) of a token of [0-9]+
ParseInt(tok) ==
    CASE tok = "0" -> 0
      [] tok = "1" -> 1
      [] tok = "2" -> 2
      [] tok = "590" -> 590
      [] tok = "121228" -> 121228
      [] tok = "200000" -> 200000
      [] tok = "1356737065" -> 1356737065

\* float(s) of a token of [0-9]+\.[0-9]+, in microseconds
ParseFloat(tok) ==
    CASE tok = "0.000255" -> 255
      [] tok = "0.000044" -> 44
      [] tok = "2.500000" -> 2500000
      [] tok = "0.005000" -> 5000

\* a / float(b)
Div(a, b) == Metric(a, b)

(***************************************************************************)
(* Heuristics.                                                             *)
(***************************************************************************)
NOTIFICATION_LEVELS ==
    [debug |-> 0, info |-> 1, warning |-> 2, error |-> 3, critical |-> 4]

\* Heuristic.__init__: the ranges, highest first; max = <<>> is Python's None
Ranges(b) ==
    <<[name |-> "critical", min |-> b[5], max |-> <<>>],
      [name |-> "error", min |-> b[4], max |-> <<b[5]>>],
      [name |-> "warning", min |-> b[3], max |-> <<b[4]>>],
      [name |-> "info", min |-> b[2], max |-> <<b[3]>>],
      [name |-> "debug", min |-> b[1], max |-> <<b[2]>>]>>

\* the condition with val > min in place of val >= min
InRangeStrictMin(r, val) ==
    val.num > r.min * val.den /\ (IF r.max # <<>> THEN Lt(val, r.max[1]) ELSE TRUE)

\* the condition with False, in place of True, for a range without a maximum
InRangeNoCritical(r, val) ==
    Ge(val, r.min) /\ (IF r.max # <<>> THEN Lt(val, r.max[1]) ELSE FALSE)

\* the condition of Heuristic.check's loop
InRange(r, val) ==
    Ge(val, r.min) /\ (IF r.max # <<>> THEN Lt(val, r.max[1]) ELSE TRUE)

RECURSIVE CheckFrom(_, _, _)
CheckFrom(ranges, i, val) ==
    IF i > Len(ranges) THEN None
    ELSE IF InRange(ranges[i], val) THEN ranges[i].name
    ELSE CheckFrom(ranges, i + 1, val)

\* Heuristic.check
Check(ranges, val) == CheckFrom(ranges, 1, val)

SlowQuery_calculate_val(header, event) ==
    Metric(ParseFloat(header.query_seconds[1]), 1)
TooManyRowsReturned_calculate_val(header, event) ==
    Metric(ParseInt(header.rows_sent[1]), 1)
TooManyRowsExamined_calculate_val(header, event) ==
    Metric(ParseInt(header.rows_examined[1]), 1)
\* the ratio without the test of rows_sent
RatioNoGuard(header, event) ==
    Div(ParseInt(header.rows_examined[1]), ParseInt(header.rows_sent[1]))

RatioOfExaminedRowsTooHigh_calculate_val(header, event) ==
    IF ParseInt(header.rows_sent[1]) > 0
    THEN Div(ParseInt(header.rows_examined[1]), ParseInt(header.rows_sent[1]))
    ELSE Metric(0, 1)
LongLockTime_calculate_val(header, event) ==
    Metric(ParseFloat(header.lock_time[1]), 1)

\* build_heuristics: name -> [the boundaries, the metric]
build_heuristics ==
    [n \in {"Slow query", "Too many rows returned", "Too many rows examined",
            "Ratio of examined to returned is too high", "Long lock time"} |->
       CASE n = "Slow query" -> <<10, 100, 1000, 10000, 100000>>
         [] n = "Too many rows returned" -> <<100, 1000, 10000, 100000, 100000>>
         [] n = "Too many rows examined" -> <<100, 1000, 10000, 100000, 100000>>
         [] n = "Ratio of examined to returned is too high" ->
                <<10, 100, 1000, 10000, 100000>>
         [] n = "Long lock time" -> <<10, 100, 1000, 10000, 100000>>]

\* the order in which heuristics.iteritems() yields the heuristics: fixed for
\* a build of the interpreter, and not specified by the language
HeuristicOrder ==
    <<"Slow query", "Too many rows returned", "Too many rows examined",
      "Ratio of examined to returned is too high", "Long lock time">>

\* the dispatch of calculate_val on the heuristic's class
calculate_val(name, header, event) ==
    CASE name = "Slow query" -> SlowQuery_calculate_val(header, event)
      [] name = "Too many rows returned" ->
             TooManyRowsReturned_calculate_val(header, event)
      [] name = "Too many rows examined" ->
             TooManyRowsExamined_calculate_val(header, event)
      [] name = "Ratio of examined to returned is too high" ->
             RatioOfExaminedRowsTooHigh_calculate_val(header, event)
      [] name = "Long lock time" -> LongLockTime_calculate_val(header, event)

(***************************************************************************)
(* process_event.                                                          *)
(***************************************************************************)
\* the condition without the comparison with notification_level
QualifiesAny(level) == level # None

\* the condition under which a level is forwarded
Qualifies(level) ==
    level # None /\ NOTIFICATION_LEVELS[level] >= notification_level

\* a loop that stops after the first finding it forwards
NextHeuristicStop(i, forwarded) ==
    IF forwarded THEN Len(HeuristicOrder) + 1 ELSE i + 1

\* the heuristic the loop of process_event takes after heuristic i
NextHeuristic(i, forwarded) == i + 1

\* rollbar.report_message(name, level=level, ...): the call is made, and it
\* returns, or it raises when the transport is down; nothing in process_event,
\* process_input or main catches what it raises
report_message(finding, out) ==
    [out EXCEPT !.reported = Append(@, finding), !.raised = (notifier = "down")]

\* the two print statements of debug mode
print_report(finding, out) == [out EXCEPT !.printed = Append(@, finding)]

\* a debug mode that prints and then calls report_message all the same
ForwardBoth(finding, out) ==
    IF debug THEN report_message(finding, print_report(finding, out))
    ELSE report_message(finding, out)

\* if debug: print ... else: rollbar.report_message(...)
Forward(finding, out) ==
    IF debug THEN print_report(finding, out) ELSE report_message(finding, out)

RECURSIVE process_event_from(_, _, _, _)
\* the loop of process_event from heuristic i on; out holds what the run has
\* reported and printed, and whether an exception was raised
process_event_from(header, event, i, out) ==
    IF i > Len(HeuristicOrder) THEN out
    ELSE LET name == HeuristicOrder[i]
             val == calculate_val(name, header, event)
         IN  IF IsFault(val) THEN [out EXCEPT !.raised = TRUE]
             ELSE LET level == Check(Ranges(build_heuristics[name]), val)
                      finding == [name |-> name, level |-> level,
                                  header |-> header, data |-> event]
                      after ==
                          IF ~Qualifies(level) THEN out
                          ELSE Forward(finding, out)
                  IN  IF after.raised THEN after
                      ELSE process_event_from(header, event,
                               NextHeuristic(i, Qualifies(level)), after)

process_event(header, event, out) ==
    process_event_from(header, event, 1,
        [out EXCEPT !.calls = Append(@, [header |-> header, event |-> event,
                                         at |-> Len(input) + 1])])

(***************************************************************************)
(* process_input.                                                          *)
(***************************************************************************)
\* Python's None, for the header
NoHeader == [g \in GroupsOf(HEADER_REGEX) |-> <<>>]

\* a header that lacks the last field of the block
NewHeaderPartial(m, tmp) == [GroupDict(m, tmp) EXCEPT !.rows_examined = <<>>]

\* a header that is set once and kept when a later header block matches
NewHeaderKeepFirst(m, tmp) ==
    IF current_header # NoHeader THEN current_header ELSE GroupDict(m, tmp)

\* the header that is active after HEADER_REGEX matched m in tmp
NewHeader(m, tmp) == GroupDict(m, tmp)

\* a loop that hands every match to process_event
DispatchedAll(event) == TRUE

\* whether an event is handed to process_event
Dispatched(event) == ~IGNORE_REGEX_match(event.query)

RECURSIVE ProcessMatches(_, _, _, _)
\* the loop over the matches of QUERY_REGEX
ProcessMatches(header, matched, j, out) ==
    IF j > Len(matched) \/ out.raised THEN out
    ELSE ProcessMatches(header, matched, j + 1,
            IF Dispatched(matched[j])
            THEN process_event(header, matched[j], out) ELSE out)

\* the number of lines in the buffer
BufLines(t) == Cardinality({i \in 1..Len(t) : t[i] = "\n"})

\* a header that is dropped once a statement was matched under it
HeaderDropped(header, matched) == IF Len(matched) > 0 THEN NoHeader ELSE header

\* the header after the loop over the matches, which does not assign it
HeaderKept(header, matched) == header

\* a buffer that is emptied after every line
NextLinesAlwaysClear(clear_lines, tmp) == <<>>

\* if clear_lines: lines = '' else: lines = tmp
NextLines(clear_lines, tmp) == IF clear_lines THEN <<>> ELSE tmp

\* one pass of the loop of process_input with a line that readline() returned
ReadLineOf(line) ==
    LET tmp == lines \o line
        header == SearchFrom(HEADER_REGEX, tmp, 1)
    IN  /\ input' = Append(input, line)
        /\ IF header.ok
           THEN /\ current_header' = NewHeader(header, tmp)
                /\ lines' = NextLines(TRUE, tmp)
                /\ pc' = "read"
                /\ UNCHANGED <<calls, reported, printed>>
           ELSE IF current_header # NoHeader
           THEN LET matched == FindIter(QUERY_REGEX, tmp, 1)
                    out == ProcessMatches(current_header, matched, 1,
                              [calls |-> calls, reported |-> reported,
                               printed |-> printed, raised |-> FALSE])
                IN  /\ calls' = out.calls
                    /\ reported' = out.reported
                    /\ printed' = out.printed
                    /\ pc' = IF out.raised THEN "crashed" ELSE "read"
                    /\ lines' = IF out.raised THEN lines
                                 ELSE NextLines(Len(matched) > 0, tmp)
                    /\ current_header' = HeaderKept(current_header, matched)
           ELSE /\ lines' = NextLines(FALSE, tmp)
                /\ pc' = "read"
                /\ UNCHANGED <<current_header, calls, reported, printed>>
        /\ UNCHANGED <<argv, notification_level, debug, notifier, hargs, hres>>

\* readline() returns one more line, a line of S, of an input stream of at
\* most n lines, while the buffer holds fewer than m lines
ReadLineBounded(n, S, m) ==
    /\ pc = "read"
    /\ Len(input) < n
    /\ BufLines(lines) < m
    /\ \E line \in S : ReadLineOf(line)

ReadLine == ReadLineBounded(MaxLines, Lines, MaxBuf)

ReadLineShort == ReadLineBounded(MaxDispatchLines, Lines, MaxBuf)

\* the lines of header blocks and one statement line
BlockLines == {LineTime, LineUser, LineWhere} \cup StatsLines

ReadBlockLine == ReadLineBounded(MaxBlockLines, BlockLines, MaxBlockBuf)

\* the lines of a header block, of a two-line statement and of two statements
\* on one line
SegmentLines ==
    {LineTime, LineUser, LineStats1, LineSelect, LineWhere, LineSetTs, LineTwo}

ReadSegmentLine == ReadLineBounded(MaxLines, SegmentLines, MaxBuf)

\* an end of the stream at which the text left in the buffer becomes an event
EofFlush ==
    /\ pc = "read"
    /\ pc' = "done"
    /\ calls' = IF lines = <<>> THEN calls
                ELSE Append(calls, [header |-> current_header,
                                    event |-> [query |-> lines],
                                    at |-> Len(input) + 1])
    /\ UNCHANGED <<argv, notification_level, debug, lines, current_header,
                   input, reported, printed, notifier, hargs, hres>>

\* readline() returns '' at the end of the stream: the loop breaks
Eof ==
    /\ pc = "read"
    /\ pc' = "done"
    /\ UNCHANGED <<argv, notification_level, debug, lines, current_header,
                   input, calls, reported, printed, notifier, hargs, hres>>

(***************************************************************************)
(* main.                                                                   *)
(***************************************************************************)
Min(a, b) == IF a < b THEN a ELSE b
Max(a, b) == IF a > b THEN a ELSE b

\* the option taken as it is
ClampLevelNone(level) == level

\* the clamp of options.notification_level
ClampLevel(level) ==
    Min(NOTIFICATION_LEVELS["critical"], Max(NOTIFICATION_LEVELS["debug"], level))

Main ==
    /\ pc = "main"
    /\ notification_level' = ClampLevel(argv.level)
    /\ debug' = argv.debug
    /\ pc' = "read"
    /\ UNCHANGED <<argv, lines, current_header, input, calls, reported,
                   printed, notifier, hargs, hres>>

\* the values of --level the model runs with
LevelOptions == -1..5

NoArgs == [kind |-> "none", b |-> <<>>, m1 |-> Metric(0, 1), m2 |-> Metric(0, 1),
           sent |-> "0", examined |-> "0"]
NoRes == [c1 |-> None, c2 |-> None, val |-> Metric(0, 1)]

\* the state at the start of main, with the transport in one of the states
\* notifiers
InitOf(levels, debugs, notifiers) ==
    /\ pc = "main"
    /\ argv \in [level : levels, debug : debugs]
    /\ notifier \in notifiers
    /\ notification_level = "warning"
    /\ debug = "undefined"
    /\ lines = <<>>
    /\ current_header = NoHeader
    /\ input = <<>>
    /\ calls = <<>>
    /\ reported = <<>>
    /\ printed = <<>>
    /\ hargs = NoArgs
    /\ hres = NoRes

\* the state at the start of main when report_message returns
InitWith(levels, debugs) == InitOf(levels, debugs, {"up"})

\* a run with the default command line
Init == InitWith({NOTIFICATION_LEVELS["warning"]}, {FALSE})

Next == Main \/ ReadLine \/ Eof

Spec == Init /\ [][Next]_vars

\* a run on a short stream with any --level and with or without --debug
InitDispatch == InitWith(LevelOptions, BOOLEAN)

NextDispatch == Main \/ ReadLineShort \/ Eof

SpecDispatch == InitDispatch /\ [][NextDispatch]_vars

\* a run with the default command line on header blocks and statements
NextResync == Main \/ ReadBlockLine \/ Eof

SpecResync == Init /\ [][NextResync]_vars

\* the same run on a finite stream: main runs, and a readline() that can
\* return the end of the stream does so after finitely many lines
SpecLive == Init /\ [][Next]_vars /\ WF_vars(Main) /\ WF_vars(Eof)

\* a run with the default command line on lines that hold up to two statements
NextSegments == Main \/ ReadSegmentLine \/ Eof

SpecSegments == Init /\ [][NextSegments]_vars

\* a run on a short stream, with any --level, in which report_message returns
\* or raises
InitNotifier == InitOf(LevelOptions, {FALSE}, {"up", "down"})

SpecNotifier == InitNotifier /\ [][NextDispatch]_vars

(***************************************************************************)
(* A heuristic evaluated on its own: Heuristic(b...).check(m) for          *)
(* ascending boundaries b and two metrics, and the ratio metric of a       *)
(* header with given row counts.                                           *)
(***************************************************************************)
Ascending(b) == \A i \in 1..(Len(b) - 1) : b[i] <= b[i + 1]
Boundaries == {b \in [1..5 -> 0..MaxBound] : Ascending(b)}
Metrics == {Metric(n, d) : n \in 0..MaxMetric, d \in {1, 2}}

\* a header with the given row counts
HeaderWith(sent, examined) ==
    [NewHeader(SearchFrom(HEADER_REGEX, LineTime \o LineUser \o LineStats1, 1),
               LineTime \o LineUser \o LineStats1)
       EXCEPT !.rows_sent = <<sent>>, !.rows_examined = <<examined>>]

InitHeur ==
    /\ pc = "heur"
    /\ \/ \E b \in Boundaries, m1 \in Metrics, m2 \in Metrics :
            hargs = [NoArgs EXCEPT !.kind = "check", !.b = b, !.m1 = m1, !.m2 = m2]
       \/ \E s \in DIGITS, e \in DIGITS :
            hargs = [NoArgs EXCEPT !.kind = "ratio", !.sent = s, !.examined = e]
    /\ hres = NoRes
    /\ argv = [level |-> NOTIFICATION_LEVELS["warning"], debug |-> FALSE]
    /\ notification_level = "warning"
    /\ debug = "undefined"
    /\ lines = <<>>
    /\ current_header = NoHeader
    /\ input = <<>>
    /\ calls = <<>>
    /\ reported = <<>>
    /\ printed = <<>>
    /\ notifier = "up"

\* Heuristic(*b).check(m1) and .check(m2)
EvalCheck ==
    /\ pc = "heur"
    /\ hargs.kind = "check"
    /\ hres' = [hres EXCEPT !.c1 = Check(Ranges(hargs.b), hargs.m1),
                            !.c2 = Check(Ranges(hargs.b), hargs.m2)]
    /\ pc' = "heur_done"
    /\ UNCHANGED <<argv, notification_level, debug, lines, current_header,
                   input, calls, reported, printed, notifier, hargs>>

\* RatioOfExaminedRowsTooHigh.calculate_val(header, event)
EvalRatio ==
    /\ pc = "heur"
    /\ hargs.kind = "ratio"
    /\ hres' = [hres EXCEPT !.val =
                   RatioOfExaminedRowsTooHigh_calculate_val(
                       HeaderWith(hargs.sent, hargs.examined), [query |-> <<>>])]
    /\ pc' = "heur_done"
    /\ UNCHANGED <<argv, notification_level, debug, lines, current_header,
                   input, calls, reported, printed, notifier, hargs>>

NextHeur == EvalCheck \/ EvalRatio

SpecHeur == InitHeur /\ [][NextHeur]_vars

(***************************************************************************)
(* The claims.                                                             *)
(***************************************************************************)
Last(sq) == sq[Len(sq)]
\* a line without its line break
Text(line) == SubSeq(line, 1, Len(line) - 1)
HasSemicolon(t) == \E i \in 1..Len(t) : t[i] = ";"
\* the line ends with a semicolon
EndsStatement(line) == Len(line) >= 2 /\ line[Len(line) - 1] = ";"
\* the lines of the form  use <db>;  and  SET timestamp=<digits>;
IgnorableLines == {LineUse, LineSetTs}
\* the field that follows a label and one blank in a statistics line
FieldAfter(line, label) == line[SetMin({i \in 1..Len(line) : line[i] = label}) + 2]
\* the fields of the header block  LineTime, LineUser, q  read off the lines
ExpectedHeader(q) ==
    [date |-> <<LineTime[5]>>, time |-> <<LineTime[7]>>,
     user_host |-> SubSeq(LineUser, 5, Len(LineUser) - 1),
     query_seconds |-> <<FieldAfter(q, "Query_time:")>>,
     lock_time |-> <<FieldAfter(q, "Lock_time:")>>,
     rows_sent |-> <<FieldAfter(q, "Rows_sent:")>>,
     rows_examined |-> <<FieldAfter(q, "Rows_examined:")>>]
\* a step of process_input that reads one line
ReadStep == pc = "read" /\ Len(input') = Len(input) + 1
\* where the header blocks of the first n input lines end
BlockEnds(n) ==
    {i \in 3..n : input[i - 2] = LineTime /\ input[i - 1] = LineUser
                    /\ input[i] \in StatsLines}
\* everything forwarded, to Rollbar or in debug mode to stdout
Forwarded == reported \o printed
\* the level a heuristic gives a call of process_event
LevelOf(n, c) == Check(Ranges(build_heuristics[n]), calculate_val(n, c.header, c.event))
\* the findings of a call of process_event at or above the threshold
QualifyingFindings(c) ==
    {[name |-> n, level |-> LevelOf(n, c), header |-> c.header, data |-> c.event] :
        n \in {m \in DOMAIN build_heuristics :
                 /\ LevelOf(m, c) # None
                 /\ NOTIFICATION_LEVELS[LevelOf(m, c)] >= notification_level}}
RECURSIVE CountQualifying(_)
CountQualifying(k) ==
    IF k = 0 THEN 0
    ELSE Cardinality(QualifyingFindings(calls[k])) + CountQualifying(k - 1)
\* the rank of a result of check: no finding < debug < ... < critical
Rank(level) == IF level = None THEN 0 ELSE NOTIFICATION_LEVELS[level] + 1
\* the level the half-open intervals of the boundaries b give the metric m
IntervalLevel(b, m) ==
    IF m.num < b[1] * m.den THEN None
    ELSE IF m.num < b[2] * m.den THEN "debug"
    ELSE IF m.num < b[3] * m.den THEN "info"
    ELSE IF m.num < b[4] * m.den THEN "warning"
    ELSE IF m.num < b[5] * m.den THEN "error"
    ELSE "critical"

\* C1: while a header is active, every line that ends a statement with a
\* semicolon and is not an ignorable statement makes process_input call
\* process_event exactly once: no statement is lost and none is duplicated.
C1_NoStatementLost ==
    [][(ReadStep /\ current_header # NoHeader /\ EndsStatement(Last(input'))
          /\ Last(input') \notin IgnorableLines)
         => Len(calls') = Len(calls) + 1]_vars

\* C2: after exactly one header block and one semicolon-terminated statement
\* (not an ignorable one), process_event has been called exactly once, with
\* the fields of the block as the header and the statement as the event.
C2_RoundTrip ==
    \A q \in StatsLines :
      \A st \in {l \in Lines : EndsStatement(l) /\ l \notin IgnorableLines} :
        input = <<LineTime, LineUser, q, st>>
          => calls = <<[header |-> ExpectedHeader(q), event |-> [query |-> Text(st)],
                        at |-> 4]>>

\* C3: every call of process_event carries the header of the last header block
\* that was complete when the line that ended the statement arrived; a header
\* replaced by a second block before any statement is in no call.
C3_MostRecentHeader ==
    \A k \in 1..Len(calls) :
      /\ BlockEnds(calls[k].at) # {}
      /\ calls[k].header = ExpectedHeader(input[SetMax(BlockEnds(calls[k].at))])

\* C3 witness: two header blocks, then a statement, dispatched with the
\* second header.
C3_Witness ==
    /\ Len(input) = 7
    /\ SubSeq(input, 1, 6) =
         <<LineTime, LineUser, LineStats1, LineTime, LineUser, LineStats2>>
    /\ Len(calls) = 1
    /\ calls[1].header = ExpectedHeader(LineStats2)

\* C4: while a header is active, a line without a semicolon produces no event,
\* and the line that carries the semicolon of a statement whose earlier lines
\* are buffered produces exactly one event, with the text of all the lines.
C4_MultiLineStatement ==
    [][(ReadStep /\ current_header # NoHeader)
         => LET l == Last(input') IN
            /\ ~HasSemicolon(l) => calls' = calls
            /\ (/\ lines # <<>>
                /\ ~HasSemicolon(lines)
                /\ EndsStatement(l)
                /\ ~HasSemicolon(SubSeq(l, 1, Len(l) - 2)))
               => calls' = Append(calls, [header |-> current_header,
                                          event |-> [query |-> lines \o Text(l)],
                                          at |-> Len(input')])]_vars

\* C4 witness: the two-line statement SELECT foo FROM bar / WHERE x = 2; was
\* dispatched as one event.
C4_Witness ==
    \E k \in 1..Len(calls) : calls[k].event.query = LineSelect \o Text(LineWhere)

\* C5: the arrival of a line  use <db>;  or  SET timestamp=<digits>;  never
\* makes process_input call process_event, whatever the buffer holds.
C5_IgnorableNeverForwarded ==
    [][(ReadStep /\ Last(input') \in IgnorableLines) => calls' = calls]_vars

\* C6: for ascending boundaries, check(m) is the level of the half-open
\* interval that holds m: None below b0, debug in [b0,b1), info in [b1,b2),
\* warning in [b2,b3), error in [b3,b4), critical from b4 on.
C6_HalfOpenIntervals ==
    (pc = "heur_done" /\ hargs.kind = "check")
      => hres.c1 = IntervalLevel(hargs.b, hargs.m1)

\* C6 witness: the info interval is empty and the metric is on its boundary,
\* which is classified warning.
C6_Witness ==
    /\ pc = "heur_done"
    /\ hargs.kind = "check"
    /\ hargs.b[2] = hargs.b[3]
    /\ hargs.b[3] < hargs.b[4]
    /\ hargs.m1.num = hargs.b[2] * hargs.m1.den
    /\ hres.c1 = "warning"

\* C7: for ascending boundaries and metrics m1 <= m2, the severity of check(m1)
\* is at most the severity of check(m2).
C7_Monotonic ==
    (/\ pc = "heur_done"
     /\ hargs.kind = "check"
     /\ hargs.m1.num * hargs.m2.den <= hargs.m2.num * hargs.m1.den)
      => Rank(hres.c1) <= Rank(hres.c2)

\* C7 witness: m1 < m2 are classified debug and critical.
C7_Witness ==
    /\ pc = "heur_done"
    /\ hargs.kind = "check"
    /\ hargs.m1.num * hargs.m2.den < hargs.m2.num * hargs.m1.den
    /\ hres.c1 = "debug"
    /\ hres.c2 = "critical"

\* C8: everything forwarded, reported or printed, has a level whose rank is at
\* or above notification_level.
C8_ThresholdFilter ==
    pc # "main"
      => \A i \in 1..Len(Forwarded) :
           NOTIFICATION_LEVELS[Forwarded[i].level] >= notification_level

\* C8 witness: with the threshold at error, a heuristic found warning for a
\* dispatched event, and only the findings of rank 3 or more were forwarded.
C8_Witness ==
    /\ pc # "main"
    /\ notification_level = NOTIFICATION_LEVELS["error"]
    /\ Len(calls) = 1
    /\ \E n \in DOMAIN build_heuristics : LevelOf(n, calls[1]) = "warning"
    /\ Len(Forwarded) = 2

\* C9: for every call of process_event, every heuristic ran and every finding
\* at or above the threshold was forwarded, once.
C9_AllFindingsForwarded ==
    pc # "main"
      => /\ {Forwarded[i] : i \in 1..Len(Forwarded)}
              = UNION {QualifyingFindings(calls[k]) : k \in 1..Len(calls)}
         /\ Len(Forwarded) = CountQualifying(Len(calls))

\* C9 witness: one event produced three findings in one pass.
C9_Witness ==
    /\ pc # "main"
    /\ Len(calls) = 1
    /\ Len(Forwarded) = 3

\* C10: the ratio metric of a header with rows_sent = 0 is 0 and no division
\* fault; with rows_sent > 0 it is rows_examined / rows_sent.
C10_RatioMetric ==
    (pc = "heur_done" /\ hargs.kind = "ratio")
      => /\ ~IsFault(hres.val)
         /\ ParseInt(hargs.sent) = 0 => hres.val = Metric(0, 1)
         /\ ParseInt(hargs.sent) > 0
              => hres.val = Metric(ParseInt(hargs.examined), ParseInt(hargs.sent))

\* C10 witness: rows_sent = 0 and rows_examined = 590 gave the metric 0.
C10_Witness ==
    /\ pc = "heur_done"
    /\ hargs.kind = "ratio"
    /\ hargs.sent = "0"
    /\ hargs.examined = "590"
    /\ hres.val = Metric(0, 1)

\* C11: a call of report_message that fails does not abort the run: the
\* heuristics after it are still evaluated, so every finding of the event at
\* or above the threshold is forwarded, and process_input goes on reading.
C11_NotifierFailureTolerated ==
    [][(ReadStep /\ notifier = "down" /\ Len(reported') > Len(reported))
         => /\ pc' = "read"
            /\ {reported'[i] : i \in 1..Len(reported')}
                 = UNION {QualifyingFindings(calls'[k]) : k \in 1..Len(calls')}]_vars

\* the findings at or above the threshold of all calls of process_event
AllQualifying == UNION {QualifyingFindings(calls[k]) : k \in 1..Len(calls)}
\* the elements of a sequence
Range(sq) == {sq[i] : i \in 1..Len(sq)}

\* C12: in debug mode report_message is never called and every finding at or
\* above the threshold is printed, once; these are the findings that a run
\* without --debug reports.
C12_DebugNeverNotifies ==
    pc # "main"
      => /\ debug => /\ reported = <<>>
                     /\ Range(printed) = AllQualifying
                     /\ Len(printed) = CountQualifying(Len(calls))
         /\ ~debug => /\ printed = <<>>
                      /\ Range(reported) = AllQualifying
                      /\ Len(reported) = CountQualifying(Len(calls))

\* C12 witness: a run with --debug printed three findings of one event and
\* reported none.
C12_Witness ==
    /\ pc # "main"
    /\ debug
    /\ Len(calls) = 1
    /\ Len(printed) = 3
    /\ reported = <<>>

\* the six input lines of the example in the source
Example == <<LineTime, LineUser, LineStats1, LineSetTs, LineSelect, LineWhere>>

\* C13: with the default thresholds and the default minimum level, the six
\* example lines give one header with query_seconds = 0.000255, rows_sent =
\* 590 and rows_examined = 590; the SET timestamp statement is dropped; the
\* two-line SELECT statement is handed to process_event once, with that
\* header; and no finding "Slow query" is forwarded.
C13_EndToEnd ==
    /\ input = SubSeq(Example, 1, 4) => (calls = <<>> /\ lines = <<>>)
    /\ input = Example
         => /\ current_header.query_seconds = <<"0.000255">>
            /\ current_header.rows_sent = <<"590">>
            /\ current_header.rows_examined = <<"590">>
            /\ calls = <<[header |-> current_header,
                          event |-> [query |-> LineSelect \o Text(LineWhere)],
                          at |-> 6]>>
            /\ \A i \in 1..Len(Forwarded) : Forwarded[i].name # "Slow query"

\* C13 witness: the six lines were read and process_event ran once.
C13_Witness ==
    /\ input = Example
    /\ Len(calls) = 1
    /\ notification_level = NOTIFICATION_LEVELS["warning"]

\* the text ends with the three lines of a header block
EndsWithBlock(t) ==
    \E q \in StatsLines :
      LET b == LineTime \o LineUser \o Text(q)
      IN  Len(t) > Len(b) /\ SubSeq(t, Len(t) - Len(b), Len(t) - 1) = b
\* the line is a statement of its own: one semicolon, at its end
OneStatement(line) ==
    EndsStatement(line) /\ ~HasSemicolon(SubSeq(line, 1, Len(line) - 2))

\* C14: a line that completes a header block empties the buffer and sets the
\* header; a line that completes a statement while a header is active empties
\* the buffer; any other line is added to the buffer; and the header changes
\* only when a header block is completed.
C14_BufferTransition ==
    [][ReadStep =>
         LET l == Last(input')
             tmp == lines \o l
             isHeader == EndsWithBlock(tmp)
             isStatement == current_header # NoHeader /\ OneStatement(l)
         IN  /\ lines' = IF isHeader \/ isStatement THEN <<>> ELSE tmp
             /\ ~isHeader => current_header' = current_header
             /\ isHeader => current_header' = ExpectedHeader(l)]_vars

\* C14 witness: SELECT foo FROM bar was kept in the buffer, WHERE x = 2; and
\* then the ignorable SET timestamp statement emptied it, under one header.
C14_Witness ==
    /\ input = <<LineTime, LineUser, LineStats1, LineSelect, LineWhere, LineSetTs>>
    /\ lines = <<>>
    /\ Len(calls) = 1
    /\ current_header = ExpectedHeader(LineStats1)

RECURSIVE TextOf(_, _)
\* the text of the input lines i..j
TextOf(i, j) == IF i > j THEN <<>> ELSE input[i] \o TextOf(i + 1, j)
\* s is the end of t
IsSuffix(s, t) == Len(s) <= Len(t) /\ SubSeq(t, Len(t) - Len(s) + 1, Len(t)) = s
\* the header has every field of a header block
Complete(h) == \A g \in DOMAIN h : h[g] # <<>>

\* C15: the active header is missing or complete, never part of a block;
\* process_event is called only after a complete header block was read, with a
\* complete header; and its event holds only text read after that block, so
\* a statement read before a header block is never dispatched.
C15_NoPartialHeader ==
    /\ current_header = NoHeader \/ Complete(current_header)
    /\ BlockEnds(Len(input)) = {} => (current_header = NoHeader /\ calls = <<>>)
    /\ \A k \in 1..Len(calls) :
         LET c == calls[k]
         IN  /\ Complete(c.header)
             /\ BlockEnds(c.at - 1) # {}
             /\ IsSuffix(c.event.query \o <<"\n">>,
                         TextOf(SetMax(BlockEnds(c.at - 1)) + 1, c.at))

\* C15 witness: the statement read before the header block was not dispatched
\* and the one read after it was.
C15_Witness ==
    /\ input = <<LineWhere, LineTime, LineUser, LineStats1, LineWhere>>
    /\ Len(calls) = 1
    /\ calls[1].at = 5

\* C16: while a header is active, a line after which the buffer holds a
\* semicolon completes a statement: a statement is matched, so the buffer is
\* emptied, and unless the line is an ignorable statement process_event is
\* called, whether or not text follows the semicolon on its line.
C16_StatementUpToSemicolon ==
    [][(ReadStep /\ current_header # NoHeader
          /\ ~EndsWithBlock(lines \o Last(input'))
          /\ HasSemicolon(lines \o Last(input')))
         => /\ lines' = <<>>
            /\ Last(input') \notin IgnorableLines => Len(calls') > Len(calls)]_vars

\* no line made process_input call process_event twice
OneCallPerLine ==
    \A j \in 1..Len(calls), k \in 1..Len(calls) : calls[j].at = calls[k].at => j = k

\* C17: while a header is active, a line that holds two statements makes
\* process_input match both: each is handed to process_event as an event of
\* its own, with the active header.
C17_MultipleStatements ==
    [][(ReadStep /\ current_header # NoHeader /\ Last(input') = LineTwo)
         => /\ Len(calls') = Len(calls) + 2
            /\ \A k \in (Len(calls) + 1)..Len(calls') :
                 calls'[k].header = current_header]_vars

\* C18: on a finite stream process_input terminates; it stops at the read that
\* returns the end of the stream, and that step makes no call of
\* process_event, no report and no print, whatever the buffer holds; after it
\* nothing happens.
C18_Terminates ==
    /\ <>[](pc = "done")
    /\ [][/\ pc' = "done" => (pc = "read" /\ UNCHANGED <<calls, reported, printed>>)
          /\ pc # "done"]_vars

\* C18 witness: the stream ended while a header was active and the buffer held
\* SELECT foo FROM bar, and no event was made of it.
C18_Witness ==
    /\ pc = "done"
    /\ current_header # NoHeader
    /\ lines = LineSelect
    /\ calls = <<>>

\* C19: after main has set it, notification_level is in 0..4: 0 for an option
\* below 0, 4 for an option above 4, the option itself otherwise; and it does
\* not change while process_input runs.
C19_LevelClamped ==
    /\ [](pc # "main"
            => /\ notification_level \in 0..4
               /\ notification_level = IF argv.level < 0 THEN 0
                                       ELSE IF argv.level > 4 THEN 4
                                       ELSE argv.level)
    /\ [][pc # "main" => notification_level' = notification_level]_vars

\* C19 witness: the option 5 became 4 and an event was dispatched under it.
C19_Witness ==
    /\ pc # "main"
    /\ argv.level = 5
    /\ notification_level = 4
    /\ Len(calls) = 1

\* C20: once a header is active a header stays active; a line that does not
\* complete a header block leaves the header as it is, also when it completes
\* a statement; every call of process_event made for a line is made with the
\* header active before it, and a line that completes a statement empties the
\* buffer and, unless it is an ignorable statement, makes that call.
C20_HeaderStaysActive ==
    [][(ReadStep /\ current_header # NoHeader)
         => LET l == Last(input')
                tmp == lines \o l
            IN  /\ current_header' # NoHeader
                /\ ~EndsWithBlock(tmp) => current_header' = current_header
                /\ \A k \in (Len(calls) + 1)..Len(calls') :
                     calls'[k].header = current_header
                /\ OneStatement(l)
                     => /\ lines' = <<>>
                        /\ l \notin IgnorableLines => Len(calls') = Len(calls) + 1]_vars

\* C20 witness: two statements in a row were dispatched with the one header.
C20_Witness ==
    /\ input = <<LineTime, LineUser, LineStats2, LineWhere, LineWhere>>
    /\ Len(calls) = 2
    /\ calls[1].header = calls[2].header
    /\ current_header = calls[2].header

====
